---- MODULE Spec2Model ----
(***************************************************************************)
(* A model of hash40-rs: the Hash40 value (a 64-bit word holding a CRC32   *)
(* in bits 0-31 and a length byte in bits 32-39), its textual and binary   *)
(* encodings, and the process-wide label registry LABELS, a                *)
(* Mutex<LabelMap> shared by every thread.                                 *)
(*                                                                         *)
(* Representation.  TLC's integers are 32 bits wide, so a u64 is a         *)
(* sequence of 8 bytes, most significant first: bytes 1-3 are bits 40-63,  *)
(* byte 4 is the length byte and bytes 5-8 are the CRC.  A string is the   *)
(* sequence of its UTF-8 bytes.  A 32-bit word is a sequence of 4 bytes,   *)
(* most significant first.                                                 *)
(***************************************************************************)
EXTENDS Integers, Sequences, FiniteSets, TLC

VARIABLES map, strict, lockHolder, poisoned, pc, op, idx, ret, calc

vars == <<map, strict, lockHolder, poisoned, pc, op, idx, ret, calc>>

regVars == <<map, strict, lockHolder, poisoned, pc, op, idx, ret>>

-----------------------------------------------------------------------------
(* Bits and bytes *)

Bits8(b) == SubSeq([i \in 1..8 |-> (b \div (2 ^ (8 - i))) % 2], 1, 8)

ByteAt(bits, k) ==
    LET o == 8 * (k - 1)
    IN  128 * bits[o + 1] + 64 * bits[o + 2] + 32 * bits[o + 3] + 16 * bits[o + 4]
        + 8 * bits[o + 5] + 4 * bits[o + 6] + 2 * bits[o + 7] + bits[o + 8]

BytesOfBits32(r) == <<ByteAt(r, 1), ByteAt(r, 2), ByteAt(r, 3), ByteAt(r, 4)>>

Bits32OfBytes(bs) == Bits8(bs[1]) \o Bits8(bs[2]) \o Bits8(bs[3]) \o Bits8(bs[4])

Xor1(a, b) == (a + b) % 2

\* the exclusive or of two 4-bit values, tabulated: XorNibble[a + 1][b + 1]
XorNibble ==
    SubSeq([a \in 1..16 |->
        SubSeq([b \in 1..16 |->
            8 * Xor1((a - 1) \div 8, (b - 1) \div 8)
            + 4 * Xor1(((a - 1) \div 4) % 2, ((b - 1) \div 4) % 2)
            + 2 * Xor1(((a - 1) \div 2) % 2, ((b - 1) \div 2) % 2)
            + Xor1((a - 1) % 2, (b - 1) % 2)], 1, 16)], 1, 16)

\* a ^ b on bytes
Xor8(a, b) ==
    16 * XorNibble[(a \div 16) + 1][(b \div 16) + 1] + XorNibble[(a % 16) + 1][(b % 16) + 1]

\* a ^ b on 32-bit words, each 4 bytes
Xor32(a, b) == <<Xor8(a[1], b[1]), Xor8(a[2], b[2]), Xor8(a[3], b[3]), Xor8(a[4], b[4])>>

-----------------------------------------------------------------------------
(* CRC-32/CKSUM as the crc crate computes it: polynomial 0x04c11db7,       *)
(* initial register 0, no reflection, final xor 0xffffffff, one table      *)
(* lookup for each byte.  The register is a 32-bit word of 4 bytes.        *)

CrcPoly == Bits32OfBytes(<<4, 193, 29, 183>>)

\* one bit step: shift left, and subtract the polynomial when a 1 falls out
CrcShift(r) ==
    LET s == Tail(r) \o <<0>>
    IN  IF r[1] = 1 THEN SubSeq([i \in 1..32 |-> Xor1(s[i], CrcPoly[i])], 1, 32) ELSE s

\* the table of the crate: entry k + 1 is byte k, in the top of the register,
\* after eight bit steps
CrcTable ==
    SubSeq([k \in 1..256 |->
        LET r0 == Bits32OfBytes(<<k - 1, 0, 0, 0>>)
        IN  BytesOfBits32(
                CrcShift(CrcShift(CrcShift(CrcShift(
                CrcShift(CrcShift(CrcShift(CrcShift(r0)))))))))], 1, 256)

\* crc = table[(crc >> 24) ^ byte] ^ (crc << 8)
CrcByte(r, b) ==
    LET e == CrcTable[Xor8(r[1], b) + 1]
    IN  <<Xor8(r[2], e[1]), Xor8(r[3], e[2]), Xor8(r[4], e[3]), e[4]>>

RECURSIVE CrcUpdate(_, _, _, _)
\* the register after the bytes s[lo..hi], in order; the range is split in
\* halves and the first half's register is evaluated before the second half
\* starts, which keeps the evaluation shallow for long strings
CrcUpdate(r, s, lo, hi) ==
    IF lo > hi THEN r
    ELSE IF lo = hi THEN CrcByte(r, s[lo])
    ELSE LET mid == (lo + hi) \div 2
             x == CrcUpdate(r, s, lo, mid)
         IN  IF Len(x) = 4 THEN CrcUpdate(x, s, mid + 1, hi) ELSE x

CrcFinal(r) == Xor32(r, <<255, 255, 255, 255>>)

\* Crc::<u32>::new(&CRC_32_CKSUM).checksum(bytes)
checksum(s) == CrcFinal(CrcUpdate(<<0, 0, 0, 0>>, s, 1, Len(s)))

-----------------------------------------------------------------------------
(* Hash40 *)

\* Hash40::new: (string.len() as u8 as u64) << 32 | crc
hash40NoTrunc(s) ==
    LET n == Len(s)
    IN  <<0, 0, (n \div 256) % 256, n % 256>> \o checksum(s)

hash40Saturating(s) ==
    <<0, 0, 0, IF Len(s) > 255 THEN 255 ELSE Len(s)>> \o checksum(s)

hash40(s) == <<0, 0, 0, Len(s) % 256>> \o checksum(s)

\* (self.0 >> 32) as u8
str_len(h) == h[4]

\* self.0 as u32
crc(h) == SubSeq(h, 5, 8)

\* h & 0xff_ffff_ffff
Mask40(h) == <<0, 0, 0>> \o SubSeq(h, 4, 8)

\* algorithm::hash40_concat: the CRC of the concatenation from the CRCs of
\* the parts (the first part's register, without its final xor, is advanced
\* over as many zero bytes as the second part's length byte says, and the
\* second CRC is added), and the two length bytes added modulo 256
hash40_concat(x, y) ==
    LET zeros == [i \in 1..str_len(y) |-> 0]
        ra == CrcFinal(crc(x))
        sh == CrcUpdate(ra, zeros, 1, str_len(y))
    IN  <<0, 0, 0, (str_len(x) + str_len(y)) % 256>> \o Xor32(sh, crc(y))

concat(x, y) == hash40_concat(x, y)

concat_str(x, s) == concat(x, hash40(s))

\* self.concat_str("/").concat(other)
join_path(x, y) == concat(concat_str(x, <<47>>), y)

-----------------------------------------------------------------------------
(* Binary form: 8 bytes in the byte order the caller names *)

Reverse(s) == SubSeq([i \in 1..Len(s) |-> s[Len(s) + 1 - i]], 1, Len(s))

\* byteorder's write_u64::<T> and read_u64::<T>
write_u64(v, order) == IF order = "BigEndian" THEN v ELSE Reverse(v)

read_u64(bytes, order) == IF order = "BigEndian" THEN bytes ELSE Reverse(bytes)

write_hash40(h, order) == write_u64(h, order)

read_hash40NoMask(bytes, order) == read_u64(bytes, order)

read_hash40(bytes, order) == Mask40(read_u64(bytes, order))

-----------------------------------------------------------------------------
(* Results.  Every Option and Result of the program is a record             *)
(* [tag, val, kind]: val is a hash (8 bytes) or a string (its bytes), kind  *)
(* is the ParseIntError kind of a ParseError.                               *)

None == [tag |-> "None", val |-> <<>>, kind |-> ""]

Some(v) == [tag |-> "Some", val |-> v, kind |-> ""]

Ok(v) == [tag |-> "Ok", val |-> v, kind |-> ""]

Text(s) == [tag |-> "Text", val |-> s, kind |-> ""]

MissingPrefix == [tag |-> "MissingPrefix", val |-> <<>>, kind |-> ""]

ParseError(k) == [tag |-> "ParseError", val |-> <<>>, kind |-> k]

LabelNotFound(l) == [tag |-> "LabelNotFound", val |-> l, kind |-> ""]

Panicked == [tag |-> "Panic", val |-> <<>>, kind |-> ""]

-----------------------------------------------------------------------------
(* Hexadecimal text *)

Nibbles(h) ==
    SubSeq([i \in 1..16 |-> IF i % 2 = 1 THEN h[(i + 1) \div 2] \div 16
                                         ELSE h[i \div 2] % 16], 1, 16)

BytesOfNibbles(n) == SubSeq([k \in 1..8 |-> 16 * n[2 * k - 1] + n[2 * k]], 1, 8)

\* the digit characters of {:x}: lowercase
HexChar(n) == IF n < 10 THEN 48 + n ELSE 87 + n

\* {:x} of a u64: its hexadecimal digits with no leading zero, "0" for zero
LowerHex(h) ==
    LET n  == Nibbles(h)
        nz == {i \in 1..16 : n[i] # 0}
        first == IF nz = {} THEN 16 ELSE CHOOSE i \in nz : \A j \in nz : i <= j
    IN  SubSeq([i \in 1..(17 - first) |-> HexChar(n[first + i - 1])], 1, 17 - first)

\* {:010x}: the digits, padded with zeros on the left up to a width of 10
PadZero10(digits) ==
    IF Len(digits) >= 10 THEN digits
    ELSE SubSeq([i \in 1..(10 - Len(digits)) |-> 48], 1, 10 - Len(digits)) \o digits

\* format!("0x{:010x}", self.0)
FormatHex(h) == <<48, 120>> \o PadZero10(LowerHex(h))

\* char::to_digit(16)
ToDigit(c) ==
    IF c >= 48 /\ c <= 57 THEN c - 48
    ELSE IF c >= 97 /\ c <= 102 THEN c - 87
    ELSE IF c >= 65 /\ c <= 70 THEN c - 55
    ELSE -1

RECURSIVE ParseDigits(_, _, _)
\* the digit loop of u64::from_str_radix: acc is the value so far, as 16
\* nibbles; result = result.checked_mul(16)?.checked_add(digit)?
ParseDigits(acc, src, i) ==
    IF i > Len(src) THEN Ok(BytesOfNibbles(acc))
    ELSE IF ToDigit(src[i]) = -1 THEN ParseError("InvalidDigit")
    ELSE IF acc[1] # 0 THEN ParseError("PosOverflow")
    ELSE ParseDigits(Tail(acc) \o <<ToDigit(src[i])>>, src, i + 1)

\* u64::from_str_radix(src, 16): empty input, a lone sign, an optional
\* leading '+', then the digits
from_str_radix(src) ==
    LET zero == SubSeq([i \in 1..16 |-> 0], 1, 16)
    IN  IF Len(src) = 0 THEN ParseError("Empty")
        ELSE IF Len(src) = 1 /\ src[1] \in {43, 45} THEN ParseError("InvalidDigit")
        ELSE IF src[1] = 43 THEN ParseDigits(zero, src, 2)
        ELSE ParseDigits(zero, src, 1)

\* str::strip_prefix("0x")
HasPrefix0x(value) == Len(value) >= 2 /\ value[1] = 48 /\ value[2] = 120

from_hex_str(value) ==
    IF HasPrefix0x(value) THEN from_str_radix(SubSeq(value, 3, Len(value)))
    ELSE MissingPrefix

-----------------------------------------------------------------------------
(* LabelMap: map is a BiHashMap<Hash40, String>, a set of <<hash, label>>  *)
(* pairs; strict is the flag of the same name.                              *)

\* BiHashMap::insert: the pairs sharing either side are removed first
InsertInverted(m, h, l) == {p \in m : p[1] = h \/ p[2] = l} \cup {<<h, l>>}

\* an insertion that replaces by hash only, as a one-directional map would
InsertLeftOnly(m, h, l) == {p \in m : p[1] # h} \cup {<<h, l>>}

Insert(m, h, l) == {p \in m : p[1] # h /\ p[2] # l} \cup {<<h, l>>}

\* LabelMap::clear
clearKeep(m) == m

clear(m) == {}

label_of(m, h) ==
    IF \E p \in m : p[1] = h THEN Some((CHOOSE p \in m : p[1] = h)[2]) ELSE None

hash_ofStrict(m, st, l) ==
    IF \E p \in m : p[2] = l THEN Some((CHOOSE p \in m : p[2] = l)[1]) ELSE None

hash_ofComputed(m, st, l) == Some(hash40(l))

hash_of(m, st, l) ==
    IF \E p \in m : p[2] = l THEN Some((CHOOSE p \in m : p[2] = l)[1])
    ELSE IF ~st THEN Some(hash40(l))
    ELSE None

\* LABELS.lock() and the match on its result: Ok(labels) => labels,
\* Err(err) => err.into_inner().  Either way the caller holds the guard.
lock_recoverUnwrap(pois, m) ==
    IF pois THEN [panic |-> TRUE, inner |-> {}] ELSE [panic |-> FALSE, inner |-> m]

lock_recover(pois, m) ==
    IF pois THEN [panic |-> FALSE, inner |-> m] ELSE [panic |-> FALSE, inner |-> m]

to_label(pois, m, h) ==
    LET g == lock_recover(pois, m)
        r == label_of(g.inner, h)
    IN  IF g.panic THEN Panicked
        ELSE IF r.tag = "Some" THEN Text(r.val) ELSE Text(FormatHex(h))

from_labelFallThrough(pois, m, st, label) ==
    LET parsed == from_hex_str(label)
        g == lock_recover(pois, m)
        r == hash_of(g.inner, st, label)
    IN  IF parsed.tag = "Ok" THEN parsed
        ELSE IF g.panic THEN Panicked
        ELSE IF r.tag = "Some" THEN Ok(r.val) ELSE LabelNotFound(label)

from_label(pois, m, st, label) ==
    LET parsed == from_hex_str(label)
        g == lock_recover(pois, m)
        r == hash_of(g.inner, st, label)
    IN  IF parsed.tag = "Ok" THEN parsed
        ELSE IF parsed.tag = "MissingPrefix"
             THEN IF g.panic THEN Panicked
                  ELSE IF r.tag = "Some" THEN Ok(r.val) ELSE LabelNotFound(label)
        ELSE parsed

\* whether from_label takes the registry lock for this input
from_label_locks(label) == from_hex_str(label).tag = "MissingPrefix"

-----------------------------------------------------------------------------
(* The inputs the threads draw from *)

\* the number of threads that write to the registry, one operation each;
\* they are numbered in the order in which they take the lock
NThreads == 2

Threads == 1..NThreads

Lx == <<120>>                         \* "x"
Ly == <<121>>                         \* "y"
LnotX == <<110, 111, 116, 45, 120>>   \* "not-x"
Lhex == <<48, 120, 49>>               \* "0x1"
LbadHex == <<48, 120, 90>>            \* "0xZ"
Lc1 == <<50, 48, 106, 103, 53>>       \* "20jg5"
Lc2 == <<108, 116, 115, 108, 56>>     \* "ltsl8", the same CRC and length as "20jg5"
LplusHex == <<48, 120, 43, 49>>       \* "0x+1"
LemptyHex == <<48, 120>>              \* "0x"
LlongHex == <<48, 120>> \o SubSeq([i \in 1..17 |-> 49], 1, 17)  \* "0x" and 17 digits

Hx == hash40(Lx)
Hc == hash40(Lc1)
HbadHex == hash40(LbadHex)
H1 == <<0, 0, 0, 0, 0, 0, 0, 1>>      \* 0x1
Hhigh == <<0, 0, 1, 0, 0, 0, 0, 1>>   \* 0x10000000001: bit 40 set

NoOp == [kind |-> "none", labels |-> <<>>, pairs |-> <<>>, flag |-> FALSE]

AddLabelsOp(ls) == [kind |-> "add_labels", labels |-> ls, pairs |-> <<>>, flag |-> FALSE]

AddCustomOp(ps) == [kind |-> "add_custom_labels", labels |-> <<>>, pairs |-> ps, flag |-> FALSE]

ClearOp == [kind |-> "clear", labels |-> <<>>, pairs |-> <<>>, flag |-> FALSE]

SetStrictOp(b) == [kind |-> "set_strict", labels |-> <<>>, pairs |-> <<>>, flag |-> b]

\* the operations a thread may run under the lock
Programs ==
    {AddLabelsOp(<<Lx, Ly>>), AddLabelsOp(<<Lc1>>), AddLabelsOp(<<Lc2, LbadHex>>),
     AddCustomOp(<< <<Hx, LnotX>> >>), AddCustomOp(<< <<Hhigh, Lhex>>, <<Hx, Ly>> >>),
     ClearOp, SetStrictOp(TRUE), SetStrictOp(FALSE)}

\* every hash and every text of the model
AllHashes == {Hx, Hc, HbadHex, H1, Hhigh, hash40(Ly), hash40(LnotX), hash40(Lhex)}

AllLabels == {Lx, Ly, LnotX, Lc1, Lc2, Lhex, LbadHex}

AllTexts == AllLabels \cup {LplusHex, LemptyHex, LlongHex}

\* the hashes the reader asks to_label and label_of about
ReadHashes == {Hx, Hhigh}

\* the labels the reader asks hash_of about
ReadLabels == {Lx, Ly}

\* the texts the reader asks from_label about
ReadTexts == {Lx, LnotX, Lhex, LbadHex, LplusHex}

OpSize(o) ==
    IF o.kind = "add_labels" THEN Len(o.labels)
    ELSE IF o.kind = "add_custom_labels" THEN Len(o.pairs)
    ELSE 1

NoRet == [op |-> "none", arg |-> <<>>, res |-> None, poison |-> FALSE]

\* the length of the long strings of the model: the length byte wraps at 256
LongLen == 256

Rep(n, c) == SubSeq([i \in 1..n |-> c], 1, n)

\* the strings Hash40::new is applied to
Strs ==
    {<<>>, <<97>>, <<47>>, <<97, 98>>, Lc1,
     Rep(LongLen - 1, 97), Rep(LongLen, 98), Rep(LongLen + 1, 99)}

\* the 64-bit values written and read back: bits 40-63, the length byte and
\* the CRC each take a few values
U64s ==
    {m \o <<n>> \o c : m \in {<<0, 0, 0>>, <<0, 0, 1>>, <<255, 255, 255>>},
                       n \in {0, 1, 255},
                       c \in {<<0, 0, 0, 0>>, <<0, 0, 0, 1>>, <<18, 52, 86, 120>>,
                              <<255, 255, 255, 255>>}}

ByteOrders == {"BigEndian", "LittleEndian"}

\* calc is the pure call in progress: its inputs (strings a and b, or a hash
\* h and a byte order), what it has computed so far (x, y, bytes) and out
NoCalc ==
    [fn |-> "none", a |-> <<>>, b |-> <<>>, h |-> <<>>, order |-> "",
     x |-> <<>>, y |-> <<>>, bytes |-> <<>>, out |-> <<>>]

-----------------------------------------------------------------------------
Init ==
    /\ map = {}
    /\ strict = FALSE
    /\ lockHolder = 0
    /\ poisoned = FALSE
    /\ pc = [t \in Threads |-> "idle"]
    /\ op = [t \in Threads |-> NoOp]
    /\ idx = [t \in Threads |-> 0]
    /\ ret = NoRet
    /\ calc = NoCalc

\* A thread takes the registry lock to run o.  The caller holds the result of
\* Hash40::label_map().lock(): on a poisoned lock it either recovers the guard
\* or unwraps the error and panics without the lock.
Lock(t, o, recover) ==
    /\ pc[t] = "idle"
    /\ \A u \in Threads : u < t => pc[u] # "idle"
    /\ lockHolder = 0
    /\ op' = [op EXCEPT ![t] = o]
    /\ IF poisoned /\ ~recover
       THEN /\ pc' = [pc EXCEPT ![t] = "panicked"]
            /\ UNCHANGED lockHolder
       ELSE /\ pc' = [pc EXCEPT ![t] = "locked"]
            /\ lockHolder' = t
    /\ UNCHANGED <<map, strict, poisoned, idx, ret, calc>>

\* one turn of the loop of add_labels
AddLabelsStep(t) ==
    /\ pc[t] = "locked"
    /\ op[t].kind = "add_labels"
    /\ idx[t] < Len(op[t].labels)
    /\ LET l == op[t].labels[idx[t] + 1]
       IN  map' = Insert(map, hash40(l), l)
    /\ idx' = [idx EXCEPT ![t] = idx[t] + 1]
    /\ UNCHANGED <<strict, lockHolder, poisoned, pc, op, ret, calc>>

\* one turn of the loop of add_custom_labels
AddCustomStep(t) ==
    /\ pc[t] = "locked"
    /\ op[t].kind = "add_custom_labels"
    /\ idx[t] < Len(op[t].pairs)
    /\ LET p == op[t].pairs[idx[t] + 1]
       IN  map' = Insert(map, p[1], p[2])
    /\ idx' = [idx EXCEPT ![t] = idx[t] + 1]
    /\ UNCHANGED <<strict, lockHolder, poisoned, pc, op, ret, calc>>

ClearStep(t) ==
    /\ pc[t] = "locked"
    /\ op[t].kind = "clear"
    /\ idx[t] = 0
    /\ map' = clear(map)
    /\ idx' = [idx EXCEPT ![t] = 1]
    /\ UNCHANGED <<strict, lockHolder, poisoned, pc, op, ret, calc>>

\* an assignment to the public field strict
SetStrictStep(t) ==
    /\ pc[t] = "locked"
    /\ op[t].kind = "set_strict"
    /\ idx[t] = 0
    /\ strict' = op[t].flag
    /\ idx' = [idx EXCEPT ![t] = 1]
    /\ UNCHANGED <<map, lockHolder, poisoned, pc, op, ret, calc>>

\* the guard is dropped at the end of the operation
Unlock(t) ==
    /\ pc[t] = "locked"
    /\ idx[t] = OpSize(op[t])
    /\ lockHolder' = 0
    /\ pc' = [pc EXCEPT ![t] = "done"]
    /\ UNCHANGED <<map, strict, poisoned, op, idx, ret, calc>>

\* the holder panics (its label iterator, an allocation, its own code): the
\* guard is dropped while unwinding, which poisons the mutex
Panic(t) ==
    /\ pc[t] = "locked"
    /\ lockHolder' = 0
    /\ poisoned' = TRUE
    /\ pc' = [pc EXCEPT ![t] = "panicked"]
    /\ UNCHANGED <<map, strict, op, idx, ret, calc>>

\* The reader is one more thread, which makes one call; ret is the call and
\* what it returned.
\* Hash40::to_label
ToLabel(h) ==
    /\ ret = NoRet
    /\ lockHolder = 0
    /\ ret' = [op |-> "to_label", arg |-> h, res |-> to_label(poisoned, map, h),
               poison |-> poisoned]
    /\ UNCHANGED <<map, strict, lockHolder, poisoned, pc, op, idx, calc>>

\* Hash40::from_label; it waits for the lock only when it takes it
FromLabel(s) ==
    /\ ret = NoRet
    /\ from_label_locks(s) => lockHolder = 0
    /\ ret' = [op |-> "from_label", arg |-> s, res |-> from_label(poisoned, map, strict, s),
               poison |-> poisoned]
    /\ UNCHANGED <<map, strict, lockHolder, poisoned, pc, op, idx, calc>>

\* LabelMap::label_of through the guard of the registry
LabelOf(h) ==
    /\ ret = NoRet
    /\ lockHolder = 0
    /\ ret' = [op |-> "label_of", arg |-> h, res |-> label_of(map, h), poison |-> poisoned]
    /\ UNCHANGED <<map, strict, lockHolder, poisoned, pc, op, idx, calc>>

\* LabelMap::hash_of through the guard of the registry
HashOf(l) ==
    /\ ret = NoRet
    /\ lockHolder = 0
    /\ ret' = [op |-> "hash_of", arg |-> l, res |-> hash_of(map, strict, l), poison |-> poisoned]
    /\ UNCHANGED <<map, strict, lockHolder, poisoned, pc, op, idx, calc>>

Next ==
    \/ \E t \in Threads, o \in Programs :
          \E recover \in (IF poisoned THEN BOOLEAN ELSE {TRUE}) : Lock(t, o, recover)
    \/ \E t \in Threads : AddLabelsStep(t)
    \/ \E t \in Threads : AddCustomStep(t)
    \/ \E t \in Threads : ClearStep(t)
    \/ \E t \in Threads : SetStrictStep(t)
    \/ \E t \in Threads : Unlock(t)
    \/ \E t \in Threads : Panic(t)
    \/ \E h \in ReadHashes : ToLabel(h)
    \/ \E s \in ReadTexts : FromLabel(s)
    \/ \E h \in ReadHashes : LabelOf(h)
    \/ \E l \in ReadLabels : HashOf(l)

Spec == Init /\ [][Next]_vars

-----------------------------------------------------------------------------
(* The pure functions, applied to inputs drawn from Strs and U64s *)

\* Hash40::new of two strings
New(a, b) ==
    /\ calc.fn = "none"
    /\ calc' = [calc EXCEPT !.fn = "new", !.a = a, !.b = b,
                            !.x = hash40(a), !.y = hash40(b)]
    /\ UNCHANGED regVars

\* Hash40::concat of the two hashes
Concat ==
    /\ calc.fn = "new"
    /\ calc' = [calc EXCEPT !.fn = "concat", !.out = concat(calc.x, calc.y)]
    /\ UNCHANGED regVars

\* Hash40::join_path of the two hashes
JoinPath ==
    /\ calc.fn = "new"
    /\ calc' = [calc EXCEPT !.fn = "join_path", !.out = join_path(calc.x, calc.y)]
    /\ UNCHANGED regVars

\* WriteHash40::write_hash40 into an empty stream
WriteHash40(h, order) ==
    /\ calc.fn = "none"
    /\ calc' = [calc EXCEPT !.fn = "write_hash40", !.h = h, !.order = order,
                            !.bytes = write_hash40(h, order)]
    /\ UNCHANGED regVars

\* ReadHash40::read_hash40 of the stream just written, in the same byte order
ReadHash40 ==
    /\ calc.fn = "write_hash40"
    /\ calc' = [calc EXCEPT !.fn = "read_hash40",
                            !.out = read_hash40(calc.bytes, calc.order)]
    /\ UNCHANGED regVars

NextPure ==
    \/ \E a \in Strs, b \in Strs : New(a, b)
    \/ Concat
    \/ JoinPath
    \/ \E h \in U64s, order \in ByteOrders : WriteHash40(h, order)
    \/ ReadHash40

SpecPure == Init /\ [][NextPure]_vars
-----------------------------------------------------------------------------
(* Properties of the registry, checked under Spec *)

\* the hash40 of every text of the model
Hash40Of == [l \in AllTexts |-> hash40(l)]

Stored(l) == \E p \in map : p[2] = l

LabelSet(t) == {op[t].labels[i] : i \in 1..Len(op[t].labels)}

\* every operation started so far is add_custom_labels or an assignment to
\* strict, some pair has been inserted and the lock is free
PopulatedByPairs ==
    /\ lockHolder = 0
    /\ \A t \in Threads : op[t].kind \in {"none", "add_custom_labels", "set_strict"}
    /\ \E t \in Threads : op[t].kind = "add_custom_labels" /\ idx[t] > 0

ClearedBy(t) ==
    /\ lockHolder = 0
    /\ op[t].kind = "clear" /\ idx[t] = 1
    /\ \E u \in Threads :
          u < t /\ op[u].kind \in {"add_labels", "add_custom_labels"} /\ idx[u] > 0
    /\ \A u \in Threads :
          u > t => (op[u].kind \in {"none", "set_strict", "clear"} \/ idx[u] = 0)

\* C2 as claimed: after clear() on a populated registry, label_of is none for
\* every hash and hash_of is none for every label.
C2_BothNoneAfterClear ==
    (\E t \in Threads : ClearedBy(t)) =>
        /\ \A h \in AllHashes : label_of(map, h) = None
        /\ \A l \in AllTexts : hash_of(map, strict, l) = None

\* C2 as amended: after clear() on a populated registry, label_of is none for
\* every hash; hash_of is none for every label only when strict is set, and
\* with strict false it returns the computed hash40 of the label, also for
\* the labels that were stored before the clear.
C2_LabelNoneHashComputedAfterClear ==
    (\E t \in Threads : ClearedBy(t)) =>
        /\ \A h \in AllHashes : label_of(map, h) = None
        /\ \A l \in AllTexts :
              hash_of(map, strict, l) = IF strict THEN None ELSE Some(Hash40Of[l])

\* "x" was added with add_labels, the registry was then cleared, and
\* hash_of("x") has returned the computed hash of "x"
C2_Witness ==
    /\ \E t \in Threads :
          /\ ClearedBy(t)
          /\ \E u \in Threads : u < t /\ op[u].kind = "add_labels" /\ Lx \in LabelSet(u)
    /\ map = {}
    /\ ret.op = "hash_of" /\ ret.arg = Lx
    /\ ret.res = Some(Hx)

\* every thread has run add_labels to its end, and no label is in the lists
\* of two threads
DisjointAddsDone ==
    /\ \A t \in Threads : pc[t] = "done" /\ op[t].kind = "add_labels"
    /\ \A t, u \in Threads : t # u => LabelSet(t) \cap LabelSet(u) = {}

InsertedLabels == UNION {LabelSet(t) : t \in Threads}

Resolvable(s) ==
    /\ label_of(map, Hash40Of[s]) = Some(s)
    /\ hash_of(map, strict, s) = Some(Hash40Of[s])

\* C3 as claimed: once the threads have all completed add_labels of pairwise
\* disjoint label sets, in whatever order they took the lock, every inserted
\* label is resolvable in both directions.
C3_AllResolvable ==
    DisjointAddsDone => \A s \in InsertedLabels : Resolvable(s)

\* C3 as amended: the same, provided no two of the inserted labels have the
\* same hash40 value (of two labels that collide, the one inserted last
\* replaces the other).
C3_AllResolvableWithoutCollision ==
    (/\ DisjointAddsDone
     /\ \A s1, s2 \in InsertedLabels : s1 # s2 => Hash40Of[s1] # Hash40Of[s2])
        => \A s \in InsertedLabels : Resolvable(s)

\* two threads have added {"x", "y"} and {"20jg5"}, and all three are stored
C3_Witness ==
    /\ DisjointAddsDone
    /\ InsertedLabels = {Lx, Ly, Lc1}
    /\ \A s \in InsertedLabels : Resolvable(s)
    /\ Cardinality(map) = 3

HexDigitChars == (48..57) \cup (97..102) \cup (65..70)

\* the text after "0x" is a hexadecimal numeral of a u64: an optional '+',
\* then one or more hexadecimal digits, at most 16 of them after the
\* leading zeros
ValidHex(rest) ==
    LET d == IF Len(rest) > 0 /\ rest[1] = 43 THEN Tail(rest) ELSE rest
    IN  /\ Len(d) > 0
        /\ \A i \in 1..Len(d) : d[i] \in HexDigitChars
        /\ \A i \in 1..(Len(d) - 16) : d[i] = 48

\* C4: from_label of a text that begins with "0x" and goes on with anything
\* but a hexadecimal numeral is a ParseError, found without taking the
\* registry lock, whatever the registry holds; a text without the prefix is
\* looked up with hash_of, and the result is the hash found or
\* LabelNotFound of the text.
C4_ErrorRouting ==
    \A s \in AllTexts :
        LET r == from_label(poisoned, map, strict, s)
            found == hash_of(map, strict, s)
        IN  /\ (HasPrefix0x(s) /\ ~ValidHex(SubSeq(s, 3, Len(s)))) =>
                  (r.tag = "ParseError" /\ ~from_label_locks(s))
            /\ ~HasPrefix0x(s) =>
                  /\ from_label_locks(s)
                  /\ r = IF found = None THEN LabelNotFound(s) ELSE Ok(found.val)

\* "0xZ" is a stored label, and from_label("0xZ") has returned a ParseError
C4_Witness ==
    /\ Stored(LbadHex)
    /\ ret.op = "from_label" /\ ret.arg = LbadHex
    /\ ret.res = ParseError("InvalidDigit")

\* "0x" and the 10 lowercase hexadecimal digits of the low 40 bits of h
Canonical40(h) ==
    LET n == Nibbles(h)
    IN  <<48, 120>> \o SubSeq([i \in 1..10 |-> HexChar(n[6 + i])], 1, 10)

\* C5 as claimed: to_label of a hash that has no label, whatever its bits
\* 40-63, returns "0x" and the 10 lowercase hexadecimal digits of its low
\* 40 bits.
C5_CanonicalHexOfLow40Bits ==
    [][(ret' # ret /\ ret'.op = "to_label" /\ label_of(map, ret'.arg) = None)
           => ret'.res = Text(Canonical40(ret'.arg))]_vars

\* C7 as claimed: in a registry that does not change between the two calls,
\* from_label(to_label(h)) is Ok(h) for every hash h.
C7_TextRoundTrip ==
    lockHolder = 0 =>
        \A h \in AllHashes :
            from_label(poisoned, map, strict, to_label(poisoned, map, h).val) = Ok(h)

\* C7 as amended: in a registry that does not change between the two calls,
\* from_label(to_label(h)) is Ok(h) for every hash h that has no stored
\* label or whose stored label does not begin with "0x" (a label that does
\* is parsed as hexadecimal and never looked up).
C7_TextRoundTripUnlessHexLabel ==
    lockHolder = 0 =>
        \A h \in AllHashes :
            (label_of(map, h) = None \/ ~HasPrefix0x(label_of(map, h).val)) =>
                from_label(poisoned, map, strict, to_label(poisoned, map, h).val) = Ok(h)

\* hash("x") is rendered as its custom label "not-x", and from_label("not-x")
\* has returned hash("x")
C7_Witness ==
    /\ lockHolder = 0
    /\ to_label(poisoned, map, Hx) = Text(LnotX)
    /\ ret.op = "from_label" /\ ret.arg = LnotX
    /\ ret.res = Ok(Hx)

\* thread t panicked in the middle of its batch, and the map holds what it
\* had inserted and not what it had yet to insert
PartialBatch(t) ==
    /\ pc[t] = "panicked"
    /\ op[t].kind \in {"add_labels", "add_custom_labels"}
    /\ idx[t] > 0 /\ idx[t] < OpSize(op[t])
    /\ IF op[t].kind = "add_labels"
       THEN /\ \A i \in 1..idx[t] :
                  <<Hash40Of[op[t].labels[i]], op[t].labels[i]>> \in map
            /\ \A i \in (idx[t] + 1)..Len(op[t].labels) :
                  <<Hash40Of[op[t].labels[i]], op[t].labels[i]>> \notin map
       ELSE /\ \A i \in 1..idx[t] : op[t].pairs[i] \in map
            /\ \A i \in (idx[t] + 1)..Len(op[t].pairs) : op[t].pairs[i] \notin map

\* what a call on the poisoned registry returns is what the same call returns
\* on the same map behind a lock that is not poisoned
ReadsInnerMap(r) ==
    /\ r.op = "to_label" => r.res = to_label(FALSE, map, r.arg)
    /\ r.op = "from_label" => r.res = from_label(FALSE, map, strict, r.arg)

\* C10 as claimed: once a thread has panicked with the registry lock, every
\* to_label and from_label call completes without panicking on the inner
\* map, to_label returns a text, and the map the call reads is not a
\* partially applied batch.
C10_RecoversAndNeverPartial ==
    [][(ret' # ret /\ poisoned /\ ret'.op \in {"to_label", "from_label"})
           => /\ ret'.res.tag # "Panic"
              /\ ReadsInnerMap(ret')
              /\ ret'.op = "to_label" => ret'.res.tag = "Text"
              /\ ~ \E t \in Threads : PartialBatch(t)]_vars

\* C10 as amended: once a thread has panicked with the registry lock, every
\* to_label and from_label call completes without panicking on the inner
\* map, and to_label returns a text, the stored label or the hexadecimal
\* text; the map the call reads is the map as the panic left it, which is a
\* partially applied batch when the panic came in the middle of
\* add_labels or add_custom_labels.
C10_RecoversInnerMap ==
    [][(ret' # ret /\ poisoned /\ ret'.op \in {"to_label", "from_label"})
           => /\ ret'.res.tag # "Panic"
              /\ ReadsInnerMap(ret')
              /\ ret'.op = "to_label" =>
                    /\ ret'.res.tag = "Text"
                    /\ \/ <<ret'.arg, ret'.res.val>> \in map
                       \/ ret'.res.val = FormatHex(ret'.arg)]_vars

\* a thread panicked after inserting "x" and before inserting "y", and
\* to_label(hash("x")) on the poisoned lock has returned "x"
C10_Witness ==
    /\ poisoned
    /\ \E t \in Threads : PartialBatch(t) /\ op[t].labels = <<Lx, Ly>>
    /\ ret.poison
    /\ ret.op = "to_label" /\ ret.arg = Hx
    /\ ret.res = Text(Lx)

-----------------------------------------------------------------------------
(* Properties of the pure functions, checked under SpecPure *)

\* C6 as claimed: read_hash40 of the 8 bytes write_hash40 wrote for h, in the
\* same byte order, is h, for every value of the 64-bit field.
C6_BinaryRoundTrip ==
    calc.fn = "read_hash40" => calc.out = calc.h

\* C6 as amended: read_hash40 of the 8 bytes write_hash40 wrote for h, in the
\* same byte order, is h with bits 40-63 cleared: it is h exactly when h
\* occupies only its low 40 bits.
C6_BinaryRoundTripLow40 ==
    calc.fn = "read_hash40" =>
        /\ SubSeq(calc.out, 4, 8) = SubSeq(calc.h, 4, 8)
        /\ SubSeq(calc.out, 1, 3) = <<0, 0, 0>>
        /\ (SubSeq(calc.h, 1, 3) = <<0, 0, 0>> <=> calc.out = calc.h)

\* a hash with bits above bit 39 was written little-endian and read back
\* without them
C6_Witness ==
    /\ calc.fn = "read_hash40"
    /\ calc.order = "LittleEndian"
    /\ calc.h = <<255, 255, 255, 1, 18, 52, 86, 120>>
    /\ calc.bytes = <<120, 86, 52, 18, 1, 255, 255, 255>>
    /\ calc.out = <<0, 0, 0, 1, 18, 52, 86, 120>>

Min(a, b) == IF a < b THEN a ELSE b

\* C9 as claimed: the length field of Hash40::new(s) is min(len(s), 255).
C9_LengthSaturates ==
    calc.fn = "new" =>
        /\ str_len(calc.x) = Min(Len(calc.a), 255)
        /\ str_len(calc.y) = Min(Len(calc.b), 255)

\* C9 as amended: the length field of Hash40::new(s) is len(s) modulo 256,
\* bits 40-63 are zero and the low 32 bits are the CRC of the bytes of s.
C9_LengthWraps ==
    calc.fn = "new" =>
        /\ str_len(calc.x) = Len(calc.a) % 256
        /\ str_len(calc.y) = Len(calc.b) % 256
        /\ SubSeq(calc.x, 1, 3) = <<0, 0, 0>>
        /\ crc(calc.x) = checksum(calc.a)

\* the hash of a string of 256 bytes or more has its length modulo 256
C9_Witness ==
    /\ calc.fn = "new"
    /\ Len(calc.a) >= 256
    /\ str_len(calc.x) = Len(calc.a) - 256

\* the pair that the next turn of the loop of thread t inserts
NextPair(t) ==
    IF op[t].kind = "add_labels"
    THEN <<Hash40Of[op[t].labels[idx[t] + 1]], op[t].labels[idx[t] + 1]>>
    ELSE op[t].pairs[idx[t] + 1]

\* thread t takes one turn of the loop of add_labels or add_custom_labels
InsertsBy(t) ==
    /\ pc[t] = "locked"
    /\ op[t].kind \in {"add_labels", "add_custom_labels"}
    /\ idx'[t] = idx[t] + 1

OneToOne ==
    /\ \A p, q \in map : (p[1] = q[1]) <=> (p[2] = q[2])
    /\ \A h \in AllHashes : \A l \in AllLabels :
          (label_of(map, h) = Some(l)) <=> (hash_of(map, TRUE, l) = Some(h))

LastWriteWins ==
    \A t \in Threads :
        InsertsBy(t) =>
            LET n == NextPair(t)
            IN  /\ n \in map'
                /\ \A q \in map :
                      (q # n /\ (q[1] = n[1] \/ q[2] = n[2])) => q \notin map'
                /\ \A q \in map :
                      (q[1] # n[1] /\ q[2] # n[2]) => q \in map'

\* C11: after any sequence of add_labels, add_custom_labels and clear the
\* registry map is one-to-one in both directions (each hash has at most one
\* label and each label at most one hash), so label_of(h) is Some(l) exactly
\* when the stored reverse entry of l is h; and every insertion of a pair
\* (h, l) removes the earlier pairs that share h or share l, keeps the
\* others, and leaves the inserted pair in the map (last write wins).
C11_OneToOneLastWriteWins ==
    /\ []OneToOne
    /\ [][LastWriteWins]_vars

\* add_labels(["x", "y"]) has completed and a later add_custom_labels has
\* inserted (hash("x"), "y"): the pair shares its hash with ("x") and its
\* label with ("y"), both earlier pairs are gone and the new one is stored
C11_Witness ==
    /\ \E u \in Threads : op[u] = AddLabelsOp(<<Lx, Ly>>) /\ idx[u] = 2
    /\ \E t \in Threads :
          /\ op[t].kind = "add_custom_labels"
          /\ idx[t] = 2
          /\ op[t].pairs[2] = <<Hx, Ly>>
    /\ <<Hx, Ly>> \in map
    /\ <<Hx, Lx>> \notin map
    /\ <<Hash40Of[Ly], Ly>> \notin map
    /\ label_of(map, Hx) = Some(Ly)
    /\ hash_of(map, TRUE, Ly) = Some(Hx)

====
